---- MODULE Spec2Model ----
(***************************************************************************)
(* Model of the stock-analysis scripts run.py .. run6.py.                  *)
(*                                                                         *)
(* Numbers.  Python floats are modelled as exact rationals <<num, den>>    *)
(* with den > 0, kept in lowest terms so that equal numbers are equal      *)
(* values.  A key missing from a dict is Absent, Python's None is None;    *)
(* both are pairs with denominator 0, so every value of an info field has  *)
(* the same shape.                                                         *)
(***************************************************************************)
EXTENDS Integers, Sequences, FiniteSets, TLC

VARIABLES
    \* run.py main(): the batch loop
    tickers,          \* the list main() iterates over
    idx,              \* number of tickers whose loop body has completed
    pc,               \* "loop" | "send" | "done" | "crashed"
    pe_ratio_sp500,   \* Globals.pe_ratio_sp500
    n_ratio_sp500,    \* Globals.n_ratio_sp500
    results,          \* the blocks appended to `results` after the header
    message,          \* the blocks of the message handed to send_telegram_message
    writes,           \* how many times Globals has been assigned so far
    \* one call of calculate_n_score
    nIn, nOut,
    \* one call of a Strategy B scorer
    snap, base_daily, res,
    \* one call of run_macro_analysis
    mIn, mOut,
    \* one call of send_telegram_message
    tgIn, tgOut,
    \* run4.py's entry point
    r4In, r4pc, analysis, r4Out

vars == <<tickers, idx, pc, pe_ratio_sp500, n_ratio_sp500, results, message, writes,
          nIn, nOut, snap, base_daily, res, mIn, mOut, tgIn, tgOut,
          r4In, r4pc, analysis, r4Out>>

batchVars == <<tickers, idx, pc, results, message, writes>>
globalsVars == <<pe_ratio_sp500, n_ratio_sp500>>
nVars == <<nIn, nOut>>
scoreVars == <<snap, base_daily, res>>
macroVars == <<mIn, mOut>>
notifyVars == <<tgIn, tgOut>>
run4Vars == <<r4In, r4pc, analysis, r4Out>>

Idle == "idle"

-----------------------------------------------------------------------------
\* Float arithmetic, as exact rationals.

Abs(x) == IF x < 0 THEN -x ELSE x

RECURSIVE GCD(_, _)
GCD(a, b) == IF b = 0 THEN a ELSE GCD(b, a % b)

\* The rational n/d (d # 0) in lowest terms with a positive denominator.
Rat(n, d) ==
    LET g == GCD(Abs(n), Abs(d))
        s == IF d < 0 THEN -1 ELSE 1
    IN  <<(s * n) \div g, (s * d) \div g>>

I(n) == <<n, 1>>

RAdd(a, b) == Rat(a[1] * b[2] + b[1] * a[2], a[2] * b[2])
RSub(a, b) == Rat(a[1] * b[2] - b[1] * a[2], a[2] * b[2])
RMul(a, b) == Rat(a[1] * b[1], a[2] * b[2])
\* a / b, for b # 0
RDiv(a, b) == Rat(a[1] * b[2], a[2] * b[1])
RLt(a, b) == a[1] * b[2] < b[1] * a[2]
RLe(a, b) == a[1] * b[2] <= b[1] * a[2]
RMin(a, b) == IF RLe(a, b) THEN a ELSE b
RMax(a, b) == IF RLe(a, b) THEN b ELSE a
RIsZero(a) == a[1] = 0

RECURSIVE RPow(_, _)
RPow(a, k) == IF k = 0 THEN I(1) ELSE RMul(a, RPow(a, k - 1))

-----------------------------------------------------------------------------
\* Python dict and truthiness semantics.

Absent == <<0, 0>>     \* the key is not in the dict
None == <<1, 0>>       \* the key maps to None

IsNum(x) == x[2] # 0

\* info.get(k)
Get(info, k) == IF info[k] = Absent THEN None ELSE info[k]
\* info.get(k, default)
GetD(info, k, default) == IF info[k] = Absent THEN default ELSE info[k]
\* bool(x): None and 0 are falsy
Truthy(x) == IsNum(x) /\ ~RIsZero(x)
\* x or y
Or(x, y) == IF Truthy(x) THEN x ELSE y

-----------------------------------------------------------------------------
\* run.py: Strategy A, calculate_n_score.

\* class Globals, as the module is loaded
DefaultPE == 25
DefaultN == 1
DefaultGlobals == [pe |-> I(DefaultPE), n |-> I(DefaultN)]

\* A local variable that the call never assigned.
NotComputed == Absent

IsBenchmarkAny(ticker_symbol) == ticker_symbol # "GLD"
IsBenchmark(ticker_symbol) == ticker_symbol = "SPY"

IsCommodity(ticker_symbol) == ticker_symbol = "GLD"

InvalidPriceStrict(current_price) == RLt(current_price, I(0))
\* if current_price <= 0
InvalidPrice(current_price) == RLe(current_price, I(0))

\* if pe_ratio is None or pe_ratio <= 0
PEUnavailable(pe_ratio) == pe_ratio = None \/ RLe(pe_ratio, I(0))

\* n = five_year_high / current_price
NRatio(five_year_high, current_price) == RDiv(five_year_high, current_price)

\* The general formula raises where Python does: None ** 3 (TypeError) and a
\* float division by zero (ZeroDivisionError).
GeneralScoreRaises(peg_ratio, pe_ratio_fw) ==
    \/ RIsZero(RAdd(peg_ratio, <<1, 2>>))
    \/ pe_ratio_fw = None
    \/ RIsZero(RPow(pe_ratio_fw, 3))

\* ((1.5 / (peg + 0.5)) ** 2) * 250.0 / pe_sp500 * pe ** 3 / pe_fw ** 3 * n ** 2 * n_sp500
GeneralScore(peg_ratio, pe_ratio, pe_ratio_fw, n, pe_sp500, n_sp500) ==
    RMul(RMul(RDiv(RMul(RDiv(RMul(RPow(RDiv(<<3, 2>>, RAdd(peg_ratio, <<1, 2>>)), 2),
                                  I(250)),
                             pe_sp500),
                        RPow(pe_ratio, 3)),
                   RPow(pe_ratio_fw, 3)),
              RPow(n, 2)),
         n_sp500)

\* final_score = pe_ratio_sp500 * (n ** 3)
CommodityScore(n, pe_sp500) == RMul(pe_sp500, RPow(n, 3))

\* What the returned string says, together with the locals it was built from.
NResult(kind, n, pe_ratio, pe_sp500, n_sp500, final_score) ==
    [kind |-> kind, n |-> n, pe_ratio |-> pe_ratio, pe_ratio_sp500 |-> pe_sp500,
     n_ratio_sp500 |-> n_sp500, final_score |-> final_score]

NError(kind, n) == NResult(kind, n, NotComputed, NotComputed, NotComputed, NotComputed)

\* calculate_n_score(ticker_symbol) on the fetch f with Globals = G:
\* the returned block, the Globals it leaves and whether it assigned them.
\*   f.exc      yf.Ticker(...) or .history(...) raised
\*   f.empty    hist_data.empty
\*   f.current_price, f.five_year_high    Close.iloc[-1], High.max()
\*   f.infoExc  reading ticker.info raised
\*   f.info     the fundamentals dict
CalculateNScore(ticker_symbol, f, G) ==
    IF f.exc THEN [out |-> NError("exception", NotComputed), G |-> G, wrote |-> FALSE]
    ELSE IF f.empty THEN [out |-> NError("no_history", NotComputed), G |-> G, wrote |-> FALSE]
    ELSE IF InvalidPrice(f.current_price)
    THEN [out |-> NError("invalid_price", NotComputed), G |-> G, wrote |-> FALSE]
    ELSE
    LET n == NRatio(f.five_year_high, f.current_price) IN
    IF f.infoExc THEN [out |-> NError("exception", n), G |-> G, wrote |-> FALSE]
    ELSE
    LET pe_ratio == GetD(f.info, "trailingPE", I(20))
        peg0 == GetD(f.info, "trailingPegRatio", I(1))
        peg_ratio == IF peg0 = None THEN I(1) ELSE peg0
    IN
    IF PEUnavailable(pe_ratio) THEN [out |-> NError("no_pe", n), G |-> G, wrote |-> FALSE]
    ELSE
    LET wrote == IsBenchmark(ticker_symbol)
        G1 == IF wrote THEN [pe |-> pe_ratio, n |-> n] ELSE G
        pe_ratio_fw == GetD(f.info, "forwardPE", pe_ratio)
        raises == IF IsCommodity(ticker_symbol)
                  THEN pe_ratio_fw = None      \* f"{pe_ratio_fw:.2f}"
                  ELSE GeneralScoreRaises(peg_ratio, pe_ratio_fw)
    IN
    IF raises
    THEN [out |-> NResult("exception", n, pe_ratio, G1.pe, G1.n, NotComputed),
          G |-> G1, wrote |-> wrote]
    ELSE [out |-> NResult("ok", n, pe_ratio, G1.pe, G1.n,
                          IF IsCommodity(ticker_symbol)
                          THEN CommodityScore(n, G1.pe)
                          ELSE GeneralScore(peg_ratio, pe_ratio, pe_ratio_fw, n, G1.pe, G1.n)),
          G |-> G1, wrote |-> wrote]

\* The fundamentals dict as calculate_n_score reads it.
NInfo(trailingPE, trailingPegRatio, forwardPE) ==
    [trailingPE |-> trailingPE, trailingPegRatio |-> trailingPegRatio,
     forwardPE |-> forwardPE]

NFetch(exc, empty, current_price, five_year_high, infoExc, info) ==
    [exc |-> exc, empty |-> empty, current_price |-> current_price,
     five_year_high |-> five_year_high, infoExc |-> infoExc, info |-> info]

NoInfo == NInfo(Absent, Absent, Absent)
FetchRaised == NFetch(TRUE, FALSE, NotComputed, NotComputed, FALSE, NoInfo)
FetchEmpty == NFetch(FALSE, TRUE, NotComputed, NotComputed, FALSE, NoInfo)

-----------------------------------------------------------------------------
\* run.py, run3.py: Strategy B, the fundamentals composite score.
\* A snapshot s holds the info dict's keys and, of the price history,
\*   s.hist_len, s.hist_high    len(hist), hist['High'].max()
\*   s.hist_error               1 when t.history(...) raises
\*   s.info_error               1 when reading t.info raises

Pct == I(100)

\* current_price = info.get('currentPrice') or info['regularMarketPrice']
CurrentPriceRaises(s) == ~Truthy(Get(s, "currentPrice")) /\ s["regularMarketPrice"] = Absent
CurrentPrice(s) == Or(Get(s, "currentPrice"), s["regularMarketPrice"])

\* if len(hist) > 500: ath = hist['High'].max()
\* else: ath = info.get('fiftyTwoWeekHigh', current_price) * 1.3
HistMin == 500
LongHistory(s) == RLt(I(HistMin), s["hist_len"])
AthRaises(s, current_price) ==
    ~LongHistory(s) /\ GetD(s, "fiftyTwoWeekHigh", current_price) = None
Ath(s, current_price) ==
    IF LongHistory(s) THEN s["hist_high"]
    ELSE RMul(GetD(s, "fiftyTwoWeekHigh", current_price), <<13, 10>>)

\* drawdown_pct = (ath - current_price) / ath * 100
DrawdownRaises(ath, current_price) == current_price = None \/ RIsZero(ath)
DrawdownPct(ath, current_price) == RMul(RDiv(RSub(ath, current_price), ath), Pct)

\* peg = info.get('pegRatio'), with the fallback of run.py / run3.py
NeedsPegFallback(peg) == peg = None \/ RLe(peg, I(0))
\* growth = (info.get('earningsGrowth') or 0.1) * 100
PegGrowth(s) == RMul(Or(Get(s, "earningsGrowth"), <<1, 10>>), Pct)
\* pe_use = forward_pe or trailing_pe or 20
PegPE(s) == Or(Get(s, "forwardPE"), Or(Get(s, "trailingPE"), I(20)))
\* peg = pe_use / growth if growth > 0 else 99
DerivedPeg(pe_use, growth) == IF RLt(I(0), growth) THEN RDiv(pe_use, growth) ELSE I(99)
Peg(s) ==
    IF NeedsPegFallback(Get(s, "pegRatio")) THEN DerivedPeg(PegPE(s), PegGrowth(s))
    ELSE Get(s, "pegRatio")

\* roic_proxy = info.get('returnOnEquity') or info.get('returnOnAssets')
RoicProxy(s) == Or(Get(s, "returnOnEquity"), Get(s, "returnOnAssets"))

\* fcf_yield = fcf / market_cap * 100 if fcf and market_cap and fcf > 0 else None
FcfYield(s) ==
    LET fcf == Get(s, "freeCashflow")
        market_cap == Get(s, "marketCap")
    IN  IF Truthy(fcf) /\ Truthy(market_cap) /\ RLt(I(0), fcf)
        THEN RMul(RDiv(fcf, market_cap), Pct)
        ELSE None

\* info.get(key, 0) * 100
GrowthPctRaises(s, key) == GetD(s, key, I(0)) = None
GrowthPct(s, key) == RMul(GetD(s, key, I(0)), Pct)

\* forward_pe / trailing_pe if forward_pe and trailing_pe else 1.0
ForwardTrailingRatio(s) ==
    IF Truthy(Get(s, "forwardPE")) /\ Truthy(Get(s, "trailingPE"))
    THEN RDiv(Get(s, "forwardPE"), Get(s, "trailingPE"))
    ELSE I(1)

\* score += 100 * roic_proxy          (run.py)
RoicLinear(roic_proxy) == RMul(Pct, roic_proxy)
\* the tiers of run3.py
RoicTiered(roic_proxy) ==
    IF RLt(<<25, 100>>, roic_proxy) THEN I(25)
    ELSE IF RLt(<<18, 100>>, roic_proxy) THEN I(20)
    ELSE IF RLt(<<10, 100>>, roic_proxy) THEN I(10)
    ELSE I(0)

\* score += 3 * fcf_yield             (run.py)
FcfLinear(fcf_yield) == RMul(I(3), fcf_yield)
\* the tiers of run3.py and run2.py
FcfTiered(fcf_yield) ==
    IF Truthy(fcf_yield) /\ RLt(I(6), fcf_yield) THEN I(20)
    ELSE IF Truthy(fcf_yield) /\ RLt(I(4), fcf_yield) THEN I(12)
    ELSE IF Truthy(fcf_yield) /\ RLt(I(2), fcf_yield) THEN I(6)
    ELSE I(0)

PegTerm(peg) ==
    IF RLt(peg, I(1)) THEN I(15)
    ELSE IF RLt(peg, <<13, 10>>) THEN I(10)
    ELSE IF RLt(peg, <<18, 10>>) THEN I(5)
    ELSE IF RLt(I(3), peg) THEN I(0 - 8)
    ELSE I(0)

DebtTerm(debt_to_equity) ==
    IF Truthy(debt_to_equity) /\ RLt(debt_to_equity, I(50)) THEN I(10)
    ELSE IF Truthy(debt_to_equity) /\ RLt(debt_to_equity, I(100)) THEN I(5)
    ELSE I(0)

GrowthTerm(forward_trailing_ratio, earnings_growth) ==
    IF RLt(forward_trailing_ratio, <<9, 10>>) /\ RLt(I(15), earnings_growth) THEN I(10)
    ELSE IF RLt(forward_trailing_ratio, I(1)) /\ RLt(I(8), earnings_growth) THEN I(6)
    ELSE I(0)

DrawdownTermLowestFirst(drawdown_pct) ==
    IF RLt(I(10), drawdown_pct) THEN I(3)
    ELSE IF RLt(I(20), drawdown_pct) THEN I(8)
    ELSE IF RLt(I(30), drawdown_pct) THEN I(15)
    ELSE IF RLt(I(40), drawdown_pct) THEN I(22)
    ELSE IF RLt(I(50), drawdown_pct) THEN I(30)
    ELSE IF RLt(I(60), drawdown_pct) THEN I(35)
    ELSE IF RLt(I(70), drawdown_pct) THEN I(40)
    ELSE I(0)
DrawdownTerm(drawdown_pct) ==
    IF RLt(I(70), drawdown_pct) THEN I(40)
    ELSE IF RLt(I(60), drawdown_pct) THEN I(35)
    ELSE IF RLt(I(50), drawdown_pct) THEN I(30)
    ELSE IF RLt(I(40), drawdown_pct) THEN I(22)
    ELSE IF RLt(I(30), drawdown_pct) THEN I(15)
    ELSE IF RLt(I(20), drawdown_pct) THEN I(8)
    ELSE IF RLt(I(10), drawdown_pct) THEN I(3)
    ELSE I(0)

ClampUpperOnly(score) == RMin(Pct, score)
\* score = max(0, min(100, score))
Clamp(score) == RMax(I(0), RMin(Pct, score))

DailyAmountNoFloor(base_daily_, score, maxMultiplier, ceiling, scoreFloor) ==
    RMin(RMul(base_daily_, RMul(RDiv(score, Pct), maxMultiplier)), ceiling)
\* multiplier = score / 100 * maxMultiplier; daily_amount = base_daily * multiplier
\* daily_amount = min(daily_amount, ceiling); if score < scoreFloor: daily_amount = 0.0
DailyAmount(base_daily_, score, maxMultiplier, ceiling, scoreFloor) ==
    IF RLt(score, scoreFloor) THEN I(0)
    ELSE RMin(RMul(base_daily_, RMul(RDiv(score, Pct), maxMultiplier)), ceiling)

\* The configuration each script hardcodes: [maxMultiplier, ceiling, scoreFloor].
ConfigRun == [maxMultiplier |-> I(6), ceiling |-> I(100), scoreFloor |-> I(40)]
ConfigRun2 == [maxMultiplier |-> I(5), ceiling |-> I(50), scoreFloor |-> I(30)]

\* What a scorer returns (kind "ok": the JSON block or the result dict; "error":
\* the caught-exception result) or that it raised ("raised"), with its locals.
BResult(kind, score, raw, daily_amount, peg, terms) ==
    [kind |-> kind, score |-> score, raw |-> raw, daily_amount |-> daily_amount,
     peg |-> peg, terms |-> terms]

NoTerms == [roic |-> NotComputed, fcf |-> NotComputed, peg |-> NotComputed,
            debt |-> NotComputed, growth |-> NotComputed, drawdown |-> NotComputed]

BRaised == BResult("raised", NotComputed, NotComputed, NotComputed, NotComputed, NoTerms)
\* return f"error: {str(e)}"
BError == BResult("error", NotComputed, NotComputed, NotComputed, NotComputed, NoTerms)

SumTerms(t) ==
    RAdd(t.roic, RAdd(t.fcf, RAdd(t.peg, RAdd(t.debt, RAdd(t.growth, t.drawdown)))))

\* The body shared by run.py and run3.py; linear selects run.py's ROE and FCF terms.
CompositeScore(s, base_daily_, linear) ==
    IF Truthy(s["info_error"]) THEN BRaised
    ELSE IF CurrentPriceRaises(s) THEN BError
    ELSE
    LET current_price == CurrentPrice(s) IN
    IF Truthy(s["hist_error"]) \/ AthRaises(s, current_price) THEN BError
    ELSE
    LET ath == Ath(s, current_price) IN
    IF DrawdownRaises(ath, current_price) THEN BError
    ELSE IF GrowthPctRaises(s, "revenueGrowth") \/ GrowthPctRaises(s, "earningsGrowth")
    THEN BError
    ELSE
    LET drawdown_pct == DrawdownPct(ath, current_price)
        peg == Peg(s)
        roic_proxy == RoicProxy(s)
        fcf_yield == FcfYield(s)
        earnings_growth == GrowthPct(s, "earningsGrowth")
    IN
    \* 100 * None, None > 0.25, 3 * None: TypeError
    IF roic_proxy = None \/ (linear /\ fcf_yield = None) THEN BError
    ELSE
    LET terms == [roic |-> IF linear THEN RoicLinear(roic_proxy) ELSE RoicTiered(roic_proxy),
                  fcf |-> IF linear THEN FcfLinear(fcf_yield) ELSE FcfTiered(fcf_yield),
                  peg |-> PegTerm(peg),
                  debt |-> DebtTerm(Get(s, "debtToEquity")),
                  growth |-> GrowthTerm(ForwardTrailingRatio(s), earnings_growth),
                  drawdown |-> DrawdownTerm(drawdown_pct)]
        raw == SumTerms(terms)
        score == Clamp(raw)
    IN  BResult("ok", score, raw,
                DailyAmount(base_daily_, score, ConfigRun.maxMultiplier,
                            ConfigRun.ceiling, ConfigRun.scoreFloor),
                peg, terms)

\* run.py
long_term_investment_score(s, base_daily_) == CompositeScore(s, base_daily_, TRUE)
\* run3.py
long_term_investment_score_v3(s, base_daily_) == CompositeScore(s, base_daily_, FALSE)

-----------------------------------------------------------------------------
\* run2.py: the earlier generation of the composite score.

\* current_price = info['currentPrice'] or info['regularMarketPrice']
CurrentPrice2Raises(s) ==
    \/ s["currentPrice"] = Absent
    \/ ~Truthy(s["currentPrice"]) /\ s["regularMarketPrice"] = Absent
CurrentPrice2(s) == Or(s["currentPrice"], s["regularMarketPrice"])

\* ath = max(t.history(period="max")['High'])
Ath2Raises(s) == Truthy(s["hist_error"]) \/ RIsZero(s["hist_len"])

\* growth = info.get('earningsGrowth', 0.1) * 100
PegGrowth2Raises(s) == GetD(s, "earningsGrowth", <<1, 10>>) = None
PegGrowth2(s) == RMul(GetD(s, "earningsGrowth", <<1, 10>>), Pct)
\* pe_for_peg = forward_pe or trailing_pe
\* peg = pe_for_peg / growth if growth > 0 and pe_for_peg else 99
DerivedPeg2(pe_for_peg, growth) ==
    IF RLt(I(0), growth) /\ Truthy(pe_for_peg) THEN RDiv(pe_for_peg, growth) ELSE I(99)
Peg2(s) ==
    IF NeedsPegFallback(Get(s, "pegRatio"))
    THEN DerivedPeg2(Or(Get(s, "forwardPE"), Get(s, "trailingPE")), PegGrowth2(s))
    ELSE Get(s, "pegRatio")

\* fcf_yield = freeCashflow / marketCap * 100 if freeCashflow and marketCap else None
FcfYield2(s) ==
    IF Truthy(Get(s, "freeCashflow")) /\ Truthy(Get(s, "marketCap"))
    THEN RMul(RDiv(Get(s, "freeCashflow"), Get(s, "marketCap")), Pct)
    ELSE None

RoicTerm2(roic) ==
    IF RLt(<<20, 100>>, roic) THEN I(25)
    ELSE IF RLt(<<15, 100>>, roic) THEN I(20)
    ELSE IF RLt(<<10, 100>>, roic) THEN I(10)
    ELSE I(0)

PegTerm2(peg) ==
    IF RLt(peg, I(1)) THEN I(20)
    ELSE IF RLt(peg, <<13, 10>>) THEN I(15)
    ELSE IF RLt(peg, <<18, 10>>) THEN I(8)
    ELSE IF RLt(I(3), peg) THEN I(0 - 10)
    ELSE I(0)

DebtTerm2(debt_to_ebitda) ==
    IF Truthy(debt_to_ebitda) /\ RLt(debt_to_ebitda, I(1)) THEN I(10)
    ELSE IF Truthy(debt_to_ebitda) /\ RLt(debt_to_ebitda, I(2)) THEN I(5)
    ELSE I(0)

GrowthTerm2(forward_trailing_ratio, revenue_growth) ==
    IF RLt(forward_trailing_ratio, <<9, 10>>) /\ RLt(I(15), revenue_growth) THEN I(10)
    ELSE IF RLt(forward_trailing_ratio, I(1)) /\ RLt(I(10), revenue_growth) THEN I(6)
    ELSE I(0)

DrawdownTerm2(drawdown_from_ath) ==
    IF RLt(I(50), drawdown_from_ath) THEN I(15)
    ELSE IF RLt(I(30), drawdown_from_ath) THEN I(8)
    ELSE IF RLt(I(15), drawdown_from_ath) THEN I(4)
    ELSE I(0)

\* return {"error": str(e), "score": 0, "daily_amount": 0.0}
BError2 == BResult("error", I(0), NotComputed, I(0), NotComputed, NoTerms)

long_term_investment_score_2(s, base_daily_) ==
    IF Truthy(s["info_error"]) THEN BRaised
    ELSE IF CurrentPrice2Raises(s) \/ Ath2Raises(s) THEN BError2
    ELSE
    LET current_price == CurrentPrice2(s)
        ath == s["hist_high"]
    IN
    IF current_price = None THEN BError2
    ELSE IF NeedsPegFallback(Get(s, "pegRatio")) /\ PegGrowth2Raises(s) THEN BError2
    \* debt_to_ebitda = info.get('debtToEquity') / 100
    ELSE IF Get(s, "debtToEquity") = None THEN BError2
    ELSE IF GrowthPctRaises(s, "revenueGrowth") \/ GrowthPctRaises(s, "earningsGrowth")
    THEN BError2
    \* outside the try block: roic > 0.20 with roic None
    ELSE IF Get(s, "returnOnEquity") = None THEN BRaised
    ELSE
    LET peg == Peg2(s)
        terms == [roic |-> RoicTerm2(Get(s, "returnOnEquity")),
                  fcf |-> FcfTiered(FcfYield2(s)),
                  peg |-> PegTerm2(peg),
                  debt |-> DebtTerm2(RDiv(Get(s, "debtToEquity"), Pct)),
                  growth |-> GrowthTerm2(ForwardTrailingRatio(s), GrowthPct(s, "revenueGrowth")),
                  drawdown |-> DrawdownTerm2(DrawdownPct(ath, current_price))]
        raw == SumTerms(terms)
        score == Clamp(raw)
    IN  BResult("ok", score, raw,
                DailyAmount(base_daily_, score, ConfigRun2.maxMultiplier,
                            ConfigRun2.ceiling, ConfigRun2.scoreFloor),
                peg, terms)

-----------------------------------------------------------------------------
\* Inputs.

F == FALSE
T == TRUE

Fields == <<"currentPrice", "regularMarketPrice", "fiftyTwoWeekHigh", "forwardPE",
            "trailingPE", "pegRatio", "earningsGrowth", "returnOnEquity",
            "returnOnAssets", "freeCashflow", "marketCap", "debtToEquity",
            "revenueGrowth", "hist_len", "hist_high", "hist_error", "info_error">>

\* A company with every metric present and strong, trading 55% below its high.
BaseRich ==
    [currentPrice |-> I(45), regularMarketPrice |-> I(45), fiftyTwoWeekHigh |-> I(100),
     forwardPE |-> I(16), trailingPE |-> I(20), pegRatio |-> <<1, 2>>,
     earningsGrowth |-> <<1, 5>>, returnOnEquity |-> <<3, 10>>,
     returnOnAssets |-> <<1, 10>>, freeCashflow |-> I(8), marketCap |-> I(100),
     debtToEquity |-> I(30), revenueGrowth |-> <<1, 5>>,
     hist_len |-> I(1000), hist_high |-> I(100), hist_error |-> I(0), info_error |-> I(0)]

\* A company at its high with a poor PEG and hardly any other field reported.
BasePoor ==
    [currentPrice |-> I(100), regularMarketPrice |-> Absent, fiftyTwoWeekHigh |-> Absent,
     forwardPE |-> Absent, trailingPE |-> Absent, pegRatio |-> I(4),
     earningsGrowth |-> Absent, returnOnEquity |-> <<1, 20>>,
     returnOnAssets |-> Absent, freeCashflow |-> Absent, marketCap |-> Absent,
     debtToEquity |-> Absent, revenueGrowth |-> Absent,
     hist_len |-> I(1000), hist_high |-> I(100), hist_error |-> I(0), info_error |-> I(0)]

\* The values an override may give a field.
FieldValues ==
    [currentPrice |-> {Absent, None, I(25), I(55), I(65), I(85), I(90), I(100), I(120)},
     regularMarketPrice |-> {Absent, None, I(45)},
     fiftyTwoWeekHigh |-> {Absent, None, I(100)},
     forwardPE |-> {Absent, None, I(16), I(20)},
     trailingPE |-> {Absent, None, I(20)},
     pegRatio |-> {Absent, None, I(0 - 1), <<3, 2>>, I(4)},
     earningsGrowth |-> {Absent, None, I(0), <<1, 10>>, <<0 - 1, 10>>},
     returnOnEquity |-> {Absent, None, <<0 - 1, 2>>, <<1, 20>>, <<3, 10>>},
     returnOnAssets |-> {Absent, None, <<1, 10>>},
     freeCashflow |-> {Absent, None, I(1), I(8)},
     marketCap |-> {Absent, None, I(100)},
     debtToEquity |-> {Absent, None, I(0), I(50), I(70), I(100), I(150)},
     revenueGrowth |-> {Absent, None, <<1, 5>>},
     hist_len |-> {I(0), I(100), I(1000)},
     hist_high |-> {I(100), I(400)},
     hist_error |-> {I(0), I(1)},
     info_error |-> {I(0), I(1)}]

\* How many fields of a base snapshot one input may override.
MaxOverrides == 2

\* The snapshots that differ from s in at most k of the fields from position i on.
RECURSIVE Overrides(_, _, _)
Overrides(s, i, k) ==
    IF i > Len(Fields) \/ k = 0 THEN {s}
    ELSE Overrides(s, i + 1, k)
         \cup UNION {Overrides([s EXCEPT ![Fields[i]] = v], i + 1, k - 1) :
                     v \in FieldValues[Fields[i]]}

Snapshots == Overrides(BaseRich, 1, MaxOverrides) \cup Overrides(BasePoor, 1, MaxOverrides)

BaseDailies == {I(0), I(10), I(30)}

-----------------------------------------------------------------------------
\* One call of a Strategy B scorer on a drawn snapshot.

BIdle == BResult("idle", NotComputed, NotComputed, NotComputed, NotComputed, NoTerms)
NIdle == NError("idle", NotComputed)

BatchIdle ==
    /\ tickers = <<>> /\ idx = 0 /\ pc = Idle /\ results = <<>> /\ message = <<>>
    /\ writes = 0
GlobalsIdle == pe_ratio_sp500 = I(DefaultPE) /\ n_ratio_sp500 = I(DefaultN)
NIdleVars == nIn = Idle /\ nOut = NIdle
ScoreIdle == snap = BaseRich /\ base_daily = I(10) /\ res = [script |-> Idle, out |-> BIdle]
MacroIdle == mIn = Idle /\ mOut = [kind |-> "idle"]
NotifyIdle == tgIn = Idle /\ tgOut = [kind |-> "idle"]
Run4Idle == r4In = Idle /\ r4pc = Idle /\ analysis = [kind |-> "idle"] /\ r4Out = [kind |-> "idle"]

InitScore ==
    /\ snap \in Snapshots
    /\ base_daily \in BaseDailies
    /\ res = [script |-> Idle, out |-> BIdle]
    /\ BatchIdle /\ GlobalsIdle /\ NIdleVars /\ MacroIdle /\ NotifyIdle /\ Run4Idle

ScoreRun ==
    /\ res.script = Idle
    /\ res' = [script |-> "run.py", out |-> long_term_investment_score(snap, base_daily)]
    /\ UNCHANGED <<snap, base_daily, batchVars, globalsVars, nVars, macroVars, notifyVars, run4Vars>>

ScoreRun2 ==
    /\ res.script = Idle
    /\ res' = [script |-> "run2.py", out |-> long_term_investment_score_2(snap, base_daily)]
    /\ UNCHANGED <<snap, base_daily, batchVars, globalsVars, nVars, macroVars, notifyVars, run4Vars>>

ScoreRun3 ==
    /\ res.script = Idle
    /\ res' = [script |-> "run3.py", out |-> long_term_investment_score_v3(snap, base_daily)]
    /\ UNCHANGED <<snap, base_daily, batchVars, globalsVars, nVars, macroVars, notifyVars, run4Vars>>

NextScore == ScoreRun \/ ScoreRun2 \/ ScoreRun3

SpecScore == InitScore /\ [][NextScore]_vars

-----------------------------------------------------------------------------
\* One call of calculate_n_score on a drawn fetch.

\* Prices and highs are drawn from -1 .. MaxPrice and 1 .. MaxPrice.
MaxPrice == 2

NInfos ==
    {NInfo(pe, peg, fw) : pe \in {Absent, None, I(0), I(20)},
                          peg \in {Absent, None, <<0 - 1, 2>>, I(2)},
                          fw \in {Absent, None, I(0), I(10)}}

\* High.max() is at least the last Close.
PriceHighs == {y \in ((0 - 1) .. MaxPrice) \X (1 .. MaxPrice) : y[2] >= y[1]}

NFetches ==
    {FetchRaised, FetchEmpty}
    \cup {NFetch(F, F, I(y[1]), I(y[2]), T, NoInfo) : y \in PriceHighs}
    \cup {NFetch(F, F, I(z[1][1]), I(z[1][2]), F, z[2]) : z \in PriceHighs \X NInfos}

\* Globals before the call: as loaded, or as a processed SPY left them.
GlobalsBefore == {DefaultGlobals, [pe |-> I(20), n |-> I(2)]}

InitN ==
    /\ nIn \in [ticker : {"SPY", "GLD", "QQQ"}, f : NFetches, G : GlobalsBefore]
    /\ nOut = NIdle
    /\ pe_ratio_sp500 = nIn.G.pe
    /\ n_ratio_sp500 = nIn.G.n
    /\ BatchIdle /\ ScoreIdle /\ MacroIdle /\ NotifyIdle /\ Run4Idle

CallCalculateNScore ==
    /\ nOut.kind = "idle"
    /\ LET c == CalculateNScore(nIn.ticker, nIn.f, [pe |-> pe_ratio_sp500, n |-> n_ratio_sp500])
       IN  /\ nOut' = c.out
           /\ pe_ratio_sp500' = c.G.pe
           /\ n_ratio_sp500' = c.G.n
    /\ UNCHANGED <<nIn, batchVars, scoreVars, macroVars, notifyVars, run4Vars>>

NextN == CallCalculateNScore

SpecN == InitN /\ [][NextN]_vars

-----------------------------------------------------------------------------
\* run.py main(): the batch loop over TICKERS.

\* TICKERS; the tickers after QQQ take the same path through the code as QQQ.
TICKERS == <<"SPY", "GLD", "QQQ", "GOOGL">>

\* How many of TICKERS a run iterates over.
NumTickers == 3

RECURSIVE Perms(_)
Perms(S) ==
    IF S = {} THEN {<<>>}
    ELSE UNION {{<<x>> \o p : p \in Perms(S \ {x})} : x \in S}

TickerLists == Perms({TICKERS[i] : i \in 1 .. NumTickers})

\* What the two fetches of one loop iteration may return.
BatchFetches ==
    {FetchRaised, FetchEmpty,
     NFetch(F, F, I(0), I(1), F, NoInfo),
     NFetch(F, F, I(1), I(1), F, NInfo(None, Absent, Absent)),
     NFetch(F, F, I(1), I(1), F, NInfo(I(20), Absent, Absent)),
     NFetch(F, F, I(1), I(2), F, NInfo(I(30), Absent, Absent)),
     NFetch(F, F, I(1), I(2), F, NInfo(I(30), Absent, None))}

BatchSnapshots == {BaseRich, BasePoor, [BaseRich EXCEPT !["info_error"] = I(1)]}

\* base_daily: float = 10.0
DefaultBaseDaily == 10

\* What long_term_investment_score(ticker) may do in one loop iteration.
BatchScores == {long_term_investment_score(s, I(DefaultBaseDaily)) : s \in BatchSnapshots}

Init ==
    /\ tickers \in TickerLists
    /\ idx = 0
    /\ pc = "loop"
    /\ results = <<>>
    /\ message = <<>>
    /\ writes = 0
    /\ GlobalsIdle /\ NIdleVars /\ ScoreIdle /\ MacroIdle /\ NotifyIdle /\ Run4Idle

\* One iteration of `for ticker in TICKERS`:
\*   result = calculate_n_score(ticker); result += long_term_investment_score(ticker)
\*   results.append(result)
\* An exception that long_term_investment_score lets out ends main().
ProcessTicker ==
    /\ pc = "loop"
    /\ idx < Len(tickers)
    /\ \E c \in {CalculateNScore(tickers[idx + 1], f,
                                 [pe |-> pe_ratio_sp500, n |-> n_ratio_sp500]) :
                 f \in BatchFetches},
          b \in BatchScores :
             /\ pe_ratio_sp500' = c.G.pe
             /\ n_ratio_sp500' = c.G.n
             /\ writes' = writes + (IF c.wrote THEN 1 ELSE 0)
             /\ IF b.kind = "raised"
                THEN /\ pc' = "crashed"
                     /\ UNCHANGED <<idx, results>>
                ELSE /\ pc' = "loop"
                     /\ idx' = idx + 1
                     /\ results' = Append(results,
                                          [ticker |-> tickers[idx + 1], a |-> c.out,
                                           b |-> [kind |-> b.kind, score |-> b.score]])
    /\ UNCHANGED <<tickers, message, nVars, scoreVars, macroVars, notifyVars, run4Vars>>

\* final_message = "\n".join(results); send_telegram_message(final_message)
SendFinalMessage ==
    /\ pc = "loop"
    /\ idx = Len(tickers)
    /\ pc' = "done"
    /\ message' = results
    /\ UNCHANGED <<tickers, idx, results, writes, globalsVars, nVars, scoreVars, macroVars, notifyVars, run4Vars>>

Next == ProcessTicker \/ SendFinalMessage

Spec == Init /\ [][Next]_vars

-----------------------------------------------------------------------------
\* run5.py, run6.py: run_macro_analysis.
\* An input m holds what the providers return:
\*   m.fredGDP, m.fredT10   "200" | "non200" | "exception": requests.get per series
\*   m.fallback             "ok" | "fail": pandas_datareader (run5.py only)
\*   m.yahoo                "ok" | "empty" | "exception" | "quotes_exception"
\*   m.len                  len(buffett_series)
\*   m.cur, m.mean, m.std   its last value and, where defined, rolling mean and std
\*   m.spread               the last T10Y2Y value
\*   m.sp, m.gold           the last S&P 500 and gold closes

\* float('nan'), and what pandas returns for a window short of min_periods
NaN == <<2, 0>>
\* "N/A (limited history)"
NA == <<3, 0>>

\* rolling(window=2520, min_periods=500)
MinPeriods == 500
\* min_overlap = 252 * 3
MinOverlap == 252 * 3

\* .rolling(...).mean().iloc[-1], .rolling(...).std().iloc[-1]
Rolling(len, value) == IF len < MinPeriods THEN NaN ELSE I(value)

\* x > y and x < y on floats: False when x is nan
Gt(x, y) == x # NaN /\ RLt(y, x)
Lt(x, y) == x # NaN /\ RLt(x, y)

\* run5.py: nan unless the rolling std is a number other than 0
ZScore5(len, cur, mean, std) ==
    IF Rolling(len, std) = NaN \/ RIsZero(Rolling(len, std)) THEN NaN
    ELSE RDiv(RSub(I(cur), Rolling(len, mean)), Rolling(len, std))

\* run6.py: z_score = (current_val - rolling_mean) / rolling_std on numpy floats;
\* nan operands give nan, and 0 / 0 gives nan (a window of equal values has
\* std 0 and its mean equal to each value).
ZScore6(len, cur, mean, std) ==
    IF Rolling(len, std) = NaN \/ RIsZero(Rolling(len, std)) THEN NaN
    ELSE RDiv(RSub(I(cur), Rolling(len, mean)), Rolling(len, std))

Regime(name, alloc) == [name |-> name, alloc |-> alloc]

DecisionEngineSpreadFirst(z_score, yield_spread, ratio) ==
    IF z_score = NaN THEN Regime("INSUFFICIENT HISTORY FOR Z-SCORE", <<33, 33, 34>>)
    ELSE IF Lt(yield_spread, I(0)) THEN Regime("RECESSION WARNING", <<10, 50, 40>>)
    ELSE IF Gt(z_score, I(2)) THEN Regime("EXCESSIVE BUBBLE", <<20, 30, 50>>)
    ELSE IF Lt(ratio, I(1)) THEN Regime("VALUE RECOVERY", <<70, 20, 10>>)
    ELSE Regime("GROWTH / MOMENTUM", <<60, 20, 20>>)
\* run5.py: the decision engine
DecisionEngine(z_score, yield_spread, ratio) ==
    IF z_score = NaN THEN Regime("INSUFFICIENT HISTORY FOR Z-SCORE", <<33, 33, 34>>)
    ELSE IF Gt(z_score, I(2)) THEN Regime("EXCESSIVE BUBBLE", <<20, 30, 50>>)
    ELSE IF Lt(yield_spread, I(0)) THEN Regime("RECESSION WARNING", <<10, 50, 40>>)
    ELSE IF Lt(ratio, I(1)) THEN Regime("VALUE RECOVERY", <<70, 20, 10>>)
    ELSE Regime("GROWTH / MOMENTUM", <<60, 20, 20>>)

\* run6.py: the decision matrix
DecisionMatrix(z_score, yield_spread, ratio) ==
    IF Gt(z_score, I(2)) THEN Regime("EXCESSIVE BUBBLE", <<20, 30, 50>>)
    ELSE IF Lt(yield_spread, I(0)) THEN Regime("RECESSION WARNING", <<10, 50, 40>>)
    ELSE IF Lt(ratio, I(1)) THEN Regime("VALUE RECOVERY", <<70, 20, 10>>)
    ELSE IF Lt(<<18, 10>>, ratio) /\ ~Gt(ratio, <<22, 10>>) /\ ratio # NaN
    THEN Regime("LATE CYCLE", <<40, 20, 40>>)
    ELSE Regime("EARLY/MID CYCLE GROWTH", <<60, 20, 20>>)

NoRegime == Regime("-", <<0, 0, 0>>)

\* What run_macro_analysis returns: a report ("report"), an error message
\* ("error", with msg), or that it raised ("raised").  z is the local z_score,
\* z_shown what the report prints for it.
MResult(script, kind, msg, z, z_shown, regime) ==
    [script |-> script, kind |-> kind, msg |-> msg, z |-> z, z_shown |-> z_shown,
     regime |-> regime.name, alloc |-> regime.alloc]

MError(script, msg) == MResult(script, "error", msg, NotComputed, NotComputed, NoRegime)
MRaised(script) == MResult(script, "raised", "-", NotComputed, NotComputed, NoRegime)

\* run5.py: get_fred_data keeps a series on status 200; the missing ones are
\* asked of fallback_fred_via_pandas_datareader.
FredData5(m) ==
    {sid \in {"GDP", "T10Y2Y"} :
        \/ (IF sid = "GDP" THEN m.fredGDP ELSE m.fredT10) = "200"
        \/ m.fallback = "ok"}

run_macro_analysis_5(m) ==
    IF Cardinality(FredData5(m)) < 2 THEN MError("run5.py", "fred")
    ELSE IF m.yahoo = "empty" THEN MError("run5.py", "no market data")
    ELSE IF m.yahoo = "exception" THEN MError("run5.py", "market data")
    ELSE IF m.yahoo = "quotes_exception" THEN MError("run5.py", "yahoo prices")
    ELSE IF m.len < MinOverlap THEN MError("run5.py", "insufficient overlapping data")
    ELSE
    LET ratio == RDiv(I(m.sp), I(m.gold))
        z_score == ZScore5(m.len, m.cur, m.mean, m.std)
    IN  MResult("run5.py", "report", "-", z_score,
                IF z_score = NaN THEN NA ELSE z_score,
                DecisionEngine(z_score, m.spread, ratio))

\* run6.py: a request that raises returns an error; a status other than 200
\* leaves the series out of fred_data without a word.
run_macro_analysis_6(m) ==
    IF m.fredGDP = "exception" \/ m.fredT10 = "exception" THEN MError("run6.py", "fred")
    ELSE IF m.yahoo = "empty" THEN MError("run6.py", "no price data")
    ELSE IF m.yahoo \in {"exception", "quotes_exception"} THEN MError("run6.py", "yahoo")
    \* fred_data['GDP']: KeyError; buffett_series.iloc[-1]: IndexError
    ELSE IF m.fredGDP # "200" \/ m.len = 0 THEN MRaised("run6.py")
    \* fred_data['T10Y2Y']: KeyError
    ELSE IF m.fredT10 # "200" THEN MRaised("run6.py")
    ELSE
    LET ratio == RDiv(I(m.sp), I(m.gold))
        z_score == ZScore6(m.len, m.cur, m.mean, m.std)
    IN  MResult("run6.py", "report", "-", z_score, z_score,
                DecisionMatrix(z_score, m.spread, ratio))

\* run4.py: run_analysis.  The file defines run_analysis twice; both read
\*   m.yahoo     what the two Ticker(...).history(...) calls do
\*   m.sp, m.gold   the last S&P 500 and gold closes
\* and the second also reads m.fredGDP through get_fred_safe("GDP").

DecisionMatrix4NoElse(ratio) ==
    IF Gt(ratio, <<22, 10>>) THEN Regime("EQUITY BUBBLE", <<10, 40, 50>>)
    ELSE IF Lt(ratio, <<8, 10>>) THEN Regime("MONETARY CRISIS", <<20, 70, 10>>)
    ELSE IF Lt(<<16, 10>>, ratio) /\ ~Gt(ratio, <<22, 10>>) /\ ratio # NaN
    THEN Regime("LATE CYCLE", <<40, 20, 40>>)
    ELSE NoRegime
\* run4.py: the decision matrix (the same in both definitions)
DecisionMatrix4(ratio) ==
    IF Gt(ratio, <<22, 10>>) THEN Regime("EQUITY BUBBLE", <<10, 40, 50>>)
    ELSE IF Lt(ratio, <<8, 10>>) THEN Regime("MONETARY CRISIS", <<20, 70, 10>>)
    ELSE IF Lt(<<16, 10>>, ratio) /\ ~Gt(ratio, <<22, 10>>) /\ ratio # NaN
    THEN Regime("LATE CYCLE", <<40, 20, 40>>)
    ELSE Regime("EARLY/MID CYCLE", <<60, 20, 20>>)

\* Python's None as a returned value, and the report text by what it states.
NoneValue == [kind |-> "None"]
Report4(ratio, regime) ==
    [kind |-> "report", ratio |-> ratio, regime |-> regime.name, alloc |-> regime.alloc]

\* What a call of run_analysis does: it raises, or it returns value having
\* printed (or only chosen) regime.
Analysis4(kind, value, regime) == [kind |-> kind, value |-> value, regime |-> regime]
Raised4 == Analysis4("raised", NoneValue, NoRegime)

\* history(...) raising, or ['Close'].iloc[-1] on an empty frame (IndexError)
Quotes4Raise(m) == m.yahoo # "ok"
\* get_fred_safe: requests.get raising, or a body that is not the CSV, whose
\* last cell float() cannot convert
Gdp4Raises(m) == m.fredGDP # "200"

\* lines 16-54: builds the report string and returns it
run_analysis_first(m) ==
    IF Quotes4Raise(m) THEN Raised4
    ELSE LET ratio == RDiv(I(m.sp), I(m.gold))
             regime == DecisionMatrix4(ratio)
         IN  Analysis4("returned", Report4(ratio, regime), regime)

\* lines 90-139: prints the figures and ends without a return statement
run_analysis_second(m) ==
    IF Quotes4Raise(m) \/ Gdp4Raises(m) THEN Raised4
    ELSE LET ratio == RDiv(I(m.sp), I(m.gold))
             regime == DecisionMatrix4(ratio)
         IN  Analysis4("returned", NoneValue, regime)

\* The name run_analysis at line 142: the later def statement rebinds it.
run_analysis(m) == run_analysis_second(m)

\* Bounds of the drawn macro inputs.
MaxVal == 6
MaxQuote == 3
MaxSpread == 1

FredStatus == {"200", "non200", "exception"}

MacroInputs ==
    [fredGDP : FredStatus, fredT10 : FredStatus, fallback : {"ok", "fail"},
     yahoo : {"ok", "empty", "exception", "quotes_exception"},
     len : {0, MinPeriods - 1, MinPeriods, MinOverlap - 1, MinOverlap},
     cur : 0 .. MaxVal, mean : {1}, std : {0, 2},
     spread : {<<x, 10>> : x \in {0 - MaxSpread, MaxSpread}} \cup {I(0)},
     sp : 1 .. MaxQuote, gold : 1 .. MaxQuote]

InitMacro ==
    /\ mIn \in {m \in MacroInputs : m.std = 0 => m.cur = m.mean}
    /\ mOut = [kind |-> "idle"]
    /\ BatchIdle /\ GlobalsIdle /\ NIdleVars /\ ScoreIdle /\ NotifyIdle /\ Run4Idle

RunMacro5 ==
    /\ mOut.kind = "idle"
    /\ mOut' = run_macro_analysis_5(mIn)
    /\ UNCHANGED <<mIn, batchVars, globalsVars, nVars, scoreVars, notifyVars, run4Vars>>

RunMacro6 ==
    /\ mOut.kind = "idle"
    /\ mOut' = run_macro_analysis_6(mIn)
    /\ UNCHANGED <<mIn, batchVars, globalsVars, nVars, scoreVars, notifyVars, run4Vars>>

\* run4.py: the regime run_analysis selects and prints
RunAnalysis4 ==
    /\ mOut.kind = "idle"
    /\ mOut' = LET a == run_analysis(mIn) IN
               IF a.kind = "raised" THEN MRaised("run4.py")
               ELSE MResult("run4.py", "report", "-", NotComputed, NotComputed, a.regime)
    /\ UNCHANGED <<mIn, batchVars, globalsVars, nVars, scoreVars, notifyVars, run4Vars>>

NextMacro == RunMacro5 \/ RunMacro6 \/ RunAnalysis4

SpecMacro == InitMacro /\ [][NextMacro]_vars

-----------------------------------------------------------------------------
\* send_telegram_message (run.py, run4.py, run6.py: the same text in each).
\* An input t holds the environment and what the HTTP POST does:
\*   t.token, t.chat   "unset" | "" | "set": TELEGRAM_BOT_TOKEN, TELEGRAM_CHAT_ID
\*   t.post            "200" | "400" | "500" | "ConnectionError" | "Timeout"
\*   t.message         the argument

EnvValues == {"unset", "", "set"}
PostOutcomes == {"200", "400", "500", "ConnectionError", "Timeout"}

\* `not bot_token`: os.environ.get gives None for an unset variable, and both
\* None and the empty string are falsy
NotSet(v) == v \in {"unset", ""}

\* the exception classes that derive from requests.exceptions.RequestException
RequestExceptions == {"ConnectionError", "Timeout", "HTTPError"}

\* What the body of the try block raises: requests.post raises on a
\* connection failure, response.raise_for_status() on a 4xx/5xx status.
PostException(post) ==
    IF post \in {"ConnectionError", "Timeout"} THEN post
    ELSE IF post \in {"400", "500"} THEN "HTTPError"
    ELSE "none"

CaughtOnlyHTTPError(exc) == exc = "HTTPError"
\* except requests.exceptions.RequestException
Caught(exc) == exc \in RequestExceptions

\* kind: "returned" | "raised"; posts: the HTTP requests made; payload: the
\* 'text' of the request; console: what was printed.
TgResult(kind, posts, payload, console) ==
    [kind |-> kind, posts |-> posts, payload |-> payload, console |-> console]

send_telegram_message(t, msg) ==
    IF NotSet(t.token) \/ NotSet(t.chat)
    THEN TgResult("returned", 0, <<>>,
                  <<<<"ERROR: not found">>, <<"Please set">>, <<"--- Stock Analysis Results ---">>,
                    <<"message", msg>>>>)
    ELSE LET exc == PostException(t.post) IN
         IF exc = "none"
         THEN TgResult("returned", 1, <<msg>>, <<<<"Successfully sent">>>>)
         ELSE IF Caught(exc)
         THEN TgResult("returned", 1, <<msg>>, <<<<"Failed to send", exc>>>>)
         ELSE TgResult("raised", 1, <<msg>>, <<>>)

\* The messages handed over: a report text, an empty text, and None.
Messages == {"report", "", "None"}

NotifyInputs == [token : EnvValues, chat : EnvValues, post : PostOutcomes]

InitNotify ==
    /\ tgIn \in [t : NotifyInputs, message : Messages]
    /\ tgOut = [kind |-> "idle"]
    /\ BatchIdle /\ GlobalsIdle /\ NIdleVars /\ ScoreIdle /\ MacroIdle /\ Run4Idle

CallSendTelegramMessage ==
    /\ tgOut.kind = "idle"
    /\ tgOut' = send_telegram_message(tgIn.t, tgIn.message)
    /\ UNCHANGED <<tgIn, batchVars, globalsVars, nVars, scoreVars, macroVars, run4Vars>>

NextNotify == CallSendTelegramMessage

SpecNotify == InitNotify /\ [][NextNotify]_vars

-----------------------------------------------------------------------------
\* run4.py's entry point:
\*   analysis = run_analysis(); send_telegram_message(analysis); print(analysis)
\* r4In.m is what the providers return, r4In.t the environment and the POST.

Run4Inputs ==
    [m : [yahoo : {"ok", "empty", "exception"}, fredGDP : FredStatus,
          sp : 1 .. MaxQuote, gold : 1 .. MaxQuote],
     t : NotifyInputs]

InitRun4 ==
    /\ r4In \in Run4Inputs
    /\ r4pc = "start"
    /\ analysis = [kind |-> "idle"]
    /\ r4Out = [kind |-> "idle"]
    /\ BatchIdle /\ GlobalsIdle /\ NIdleVars /\ ScoreIdle /\ MacroIdle /\ NotifyIdle

\* analysis = run_analysis()
CallRunAnalysis ==
    /\ r4pc = "start"
    /\ LET a == run_analysis(r4In.m) IN
       IF a.kind = "raised"
       THEN r4pc' = "crashed" /\ UNCHANGED analysis
       ELSE r4pc' = "analysed" /\ analysis' = a.value
    /\ UNCHANGED <<r4In, r4Out, batchVars, globalsVars, nVars, scoreVars, macroVars,
                   notifyVars>>

\* send_telegram_message(analysis)
SendAnalysis ==
    /\ r4pc = "analysed"
    /\ r4Out' = send_telegram_message(r4In.t, analysis)
    /\ r4pc' = IF r4Out'.kind = "raised" THEN "crashed" ELSE "sent"
    /\ UNCHANGED <<r4In, analysis, batchVars, globalsVars, nVars, scoreVars, macroVars,
                   notifyVars>>

\* print(analysis)
PrintAnalysis ==
    /\ r4pc = "sent"
    /\ r4pc' = "done"
    /\ UNCHANGED <<r4In, analysis, r4Out, batchVars, globalsVars, nVars, scoreVars,
                   macroVars, notifyVars>>

NextRun4 == CallRunAnalysis \/ SendAnalysis \/ PrintAnalysis

SpecRun4 == InitRun4 /\ [][NextRun4]_vars

-----------------------------------------------------------------------------
\* Properties of the batch loop (Spec).

\* C1: a failure of one ticker never stops the batch: main() is always either
\* still iterating or has sent a message holding one block per ticker.
C1_FailuresIsolated ==
    /\ pc \in {"loop", "done"}
    /\ pc = "done" => Len(message) = Len(tickers)

\* The results of the earlier iterations in which SPY was processed successfully.
EarlierBenchmark(j) ==
    {i \in 1 .. j - 1 : results[i].ticker = "SPY" /\ results[i].a.kind = "ok"}

\* C5: every scored ticker other than SPY uses the default baseline (25.0, 1.0)
\* if SPY was not successfully processed earlier in the run, and the
\* (trailingPE, n) recorded from SPY otherwise.
C5_BaselineDefaultOrRecorded ==
    \A j \in 1 .. Len(results) :
        (results[j].ticker # "SPY" /\ results[j].a.kind = "ok") =>
            IF EarlierBenchmark(j) = {}
            THEN /\ results[j].a.pe_ratio_sp500 = I(DefaultPE)
                 /\ results[j].a.n_ratio_sp500 = I(DefaultN)
            ELSE \E i \in EarlierBenchmark(j) :
                    /\ results[j].a.pe_ratio_sp500 = results[i].a.pe_ratio
                    /\ results[j].a.n_ratio_sp500 = results[i].a.n

BlocksInOrder ==
    /\ Len(results) = idx
    /\ \A i \in 1 .. Len(results) :
          /\ results[i].ticker = tickers[i]
          /\ results[i].a.kind # "idle" /\ results[i].b.kind \in {"ok", "error"}
    /\ pc = "done" => (idx = Len(tickers) /\ message = results)
    /\ pc # "done" => message = <<>>

\* C18: main() processes each ticker once, to completion and in list order,
\* and calls send_telegram_message exactly once, after the last ticker, with
\* one block per ticker: it never ends without having sent the message.
C18_StrictlySequential ==
    /\ BlocksInOrder
    /\ pc \in {"loop", "done"}

-----------------------------------------------------------------------------
\* Properties of one calculate_n_score call (SpecN).

FetchedWithPrice(f) ==
    ~f.exc /\ ~f.empty /\ ~f.infoExc /\ RLt(I(0), f.current_price)

\* C13: a trailingPE that is missing (key absent, or None) or <= 0 gives the
\* "P/E ratio not available" line and no score; no default stands in for it.
C13_MissingPEUnavailable ==
    (nOut.kind # "idle" /\ FetchedWithPrice(nIn.f)
        /\ (nIn.f.info["trailingPE"] \in {Absent, None}
               \/ RLe(nIn.f.info["trailingPE"], I(0)))) =>
        /\ nOut.kind = "no_pe"
        /\ nOut.pe_ratio = NotComputed /\ nOut.final_score = NotComputed

\* C14: for GLD with a positive price the score is benchmarkPE * n^3 on the
\* current benchmark reference, whether or not GLD has a trailing P/E
\* (stated for the fetches whose forwardPE is not None).
C14_CommodityScore ==
    (nOut.kind # "idle" /\ nIn.ticker = "GLD" /\ FetchedWithPrice(nIn.f)
        /\ nIn.f.info["forwardPE"] # None) =>
        /\ nOut.kind = "ok"
        /\ nOut.final_score =
              RMul(nIn.G.pe, RPow(RDiv(nIn.f.five_year_high, nIn.f.current_price), 3))

\* The fundamentals hold a trailing P/E, and it is positive.
ValidTrailingPE(info) == IsNum(info["trailingPE"]) /\ RLt(I(0), info["trailingPE"])

\* C19: calculate_n_score always returns, a result block or one error line,
\* whatever the fetch gives (empty history, price <= 0, forwardPE None or 0,
\* trailingPegRatio -0.5); and when it returns an error line the benchmark
\* reference is as it was, unless the ticker is SPY with a valid price and a
\* valid trailing P/E.
C19_ErrorLineKeepsReference ==
    nOut.kind # "idle" =>
        /\ nOut.kind \in {"ok", "exception", "no_history", "invalid_price", "no_pe"}
        /\ nOut.kind # "ok" =>
              \/ pe_ratio_sp500 = nIn.G.pe /\ n_ratio_sp500 = nIn.G.n
              \/ /\ nIn.ticker = "SPY" /\ FetchedWithPrice(nIn.f)
                 /\ ValidTrailingPE(nIn.f.info)

-----------------------------------------------------------------------------
\* Properties of one Strategy B call (SpecScore).

\* The snapshot has a usable price and a long price history, and both fetches
\* succeeded: the only fields that may be missing are optional ones.
ValidPriceAndHistory(s) ==
    /\ ~Truthy(s["info_error"]) /\ ~Truthy(s["hist_error"])
    /\ IsNum(s["currentPrice"]) /\ RLt(I(0), s["currentPrice"])
    /\ LongHistory(s)

\* C2: with a valid price and history, run.py and run3.py return a score
\* whatever optional fields are missing, and an unavailable FCF yield adds 0.
C2_OptionalNeverRaises ==
    (res.script \in {"run.py", "run3.py"} /\ ValidPriceAndHistory(snap)) =>
        /\ res.out.kind = "ok"
        /\ FcfYield(snap) = None => res.out.terms.fcf = I(0)

\* C3: every score a Strategy B scorer returns lies in [0, 100].
C3_ScoreInRange ==
    (res.out.kind \in {"ok", "error"} /\ res.out.score # NotComputed) =>
        RLe(I(0), res.out.score) /\ RLe(res.out.score, I(100))

C3_Witness ==
    /\ res.script = "run.py" /\ res.out.kind = "ok"
    /\ RLt(I(100), res.out.raw) /\ res.out.score = I(100)

ScriptConfig(script) == IF script = "run2.py" THEN ConfigRun2 ELSE ConfigRun

\* The daily amount of every integer score, per base_daily and configuration.
DailyAmounts ==
    [b \in BaseDailies |->
        [c \in {ConfigRun, ConfigRun2} |->
            [k \in 0 .. 100 |->
                DailyAmount(b, I(k), c.maxMultiplier, c.ceiling, c.scoreFloor)]]]

\* C4: the daily amount is min(base_daily * (score/100) * maxMultiplier, ceiling),
\* forced to 0 below the score floor; it never exceeds the ceiling; and it is
\* non-decreasing in the score for the same base_daily >= 0.
C4_DailyAmount ==
    res.out.kind = "ok" =>
        LET cfg == ScriptConfig(res.script)
            amount(score) == DailyAmounts[base_daily][cfg][score[1]]
        IN  /\ RLt(res.out.score, cfg.scoreFloor) => res.out.daily_amount = I(0)
            /\ ~RLt(res.out.score, cfg.scoreFloor) =>
                  res.out.daily_amount =
                      RMin(RMul(RMul(base_daily, RDiv(res.out.score, I(100))),
                                cfg.maxMultiplier),
                           cfg.ceiling)
            /\ RLe(res.out.daily_amount, cfg.ceiling)
            /\ \A k \in 0 .. 100 :
                  /\ RLe(I(k), res.out.score) => RLe(amount(I(k)), res.out.daily_amount)
                  /\ RLe(res.out.score, I(k)) => RLe(res.out.daily_amount, amount(I(k)))

C4_Witness ==
    /\ res.out.kind = "ok" /\ RLt(I(0), base_daily)
    /\ RLt(I(0), res.out.score) /\ RLt(res.out.score, ScriptConfig(res.script).scoreFloor)
    /\ res.out.daily_amount = I(0)

\* C8: in run.py and run2.py, when pegRatio is absent or <= 0, the derived peg is pe / (earningsGrowth * 100)
\* with pe = forwardPE, else trailingPE, for earningsGrowth > 0, and the
\* sentinel 99 for earningsGrowth <= 0, 0 included.
C8_PegFallback ==
    (res.script \in {"run.py", "run2.py"} /\ res.out.kind = "ok"
        /\ NeedsPegFallback(Get(snap, "pegRatio")) /\ IsNum(snap["earningsGrowth"])) =>
        LET growth == snap["earningsGrowth"]
            pe == Or(Get(snap, "forwardPE"), Get(snap, "trailingPE"))
        IN  /\ (RLt(I(0), growth) /\ Truthy(pe)) =>
                  res.out.peg = RDiv(pe, RMul(growth, I(100)))
            /\ RLe(growth, I(0)) => res.out.peg = I(99)

\* C15: the balance-sheet term of run.py and run3.py is +10 for an available
\* debtToEquity below 50 (0 included), +5 from 50 to below 100, 0 from 100 on,
\* and 0 when debtToEquity is unavailable.
C15_BalanceSheetTerm ==
    (res.script \in {"run.py", "run3.py"} /\ res.out.kind = "ok") =>
        LET d == Get(snap, "debtToEquity") IN
        res.out.terms.debt =
            IF d = None THEN I(0)
            ELSE IF RLt(d, I(50)) THEN I(10)
            ELSE IF RLt(d, I(100)) THEN I(5)
            ELSE I(0)

\* The thresholds of the drawdown tiers and what each is worth.
DrawdownTiers ==
    {<<70, 40>>, <<60, 35>>, <<50, 30>>, <<40, 22>>, <<30, 15>>, <<20, 8>>, <<10, 3>>}

\* C16: in run.py and run3.py drawdownPct = (ath - currentPrice) / ath * 100,
\* and the drawdown term is the value of the highest threshold that
\* drawdownPct strictly exceeds, 0 when it exceeds none (drawdownPct <= 10,
\* negative included): exactly one tier applies.
C16_DrawdownTier ==
    (res.script \in {"run.py", "run3.py"} /\ res.out.kind = "ok") =>
        LET price == CurrentPrice(snap)
            ath == Ath(snap, price)
            pct == RMul(RDiv(RSub(ath, price), ath), I(100))
            exceeded == {t \in DrawdownTiers : RLt(I(t[1]), pct)}
        IN  IF exceeded = {} THEN res.out.terms.drawdown = I(0)
            ELSE \E t \in exceeded :
                    /\ \A u \in exceeded : u[1] <= t[1]
                    /\ res.out.terms.drawdown = I(t[2])

C16_Witness ==
    /\ res.script = "run.py" /\ res.out.kind = "ok"
    /\ CurrentPrice(snap) = I(45) /\ Ath(snap, I(45)) = I(100)
    /\ res.out.terms.drawdown = I(30)

-----------------------------------------------------------------------------
\* Properties of one run_macro_analysis call (SpecMacro).

\* C9: the regimes are tried in priority order: a defined z-score above 2.0
\* gives the bubble regime whatever the spread and the ratio; otherwise a
\* negative spread gives the recession warning whatever the ratio; otherwise
\* a ratio below 1.0 gives value recovery.
C9_RegimePriority ==
    (mOut.kind = "report" /\ mOut.script \in {"run5.py", "run6.py"} /\ mOut.z # NaN) =>
        LET ratio == RDiv(I(mIn.sp), I(mIn.gold)) IN
        /\ RLt(I(2), mOut.z) => mOut.regime = "EXCESSIVE BUBBLE"
        /\ (RLe(mOut.z, I(2)) /\ RLt(mIn.spread, I(0))) => mOut.regime = "RECESSION WARNING"
        /\ (RLe(mOut.z, I(2)) /\ RLe(I(0), mIn.spread) /\ RLt(ratio, I(1))) =>
              mOut.regime = "VALUE RECOVERY"

C9_Witness ==
    /\ mOut.kind = "report" /\ mOut.script = "run5.py"
    /\ mOut.z = <<5, 2>> /\ mIn.spread = <<0 - 1, 10>> /\ mIn.sp < mIn.gold
    /\ mOut.regime = "EXCESSIVE BUBBLE"

\* Every provider answered, so the analysis gets as far as the z-score.
ProvidersAnswered(m) == m.fredGDP = "200" /\ m.fredT10 = "200" /\ m.yahoo = "ok"

\* C10: when the ratio series has samples but fewer than 500, or a rolling std of 0,
\* both scripts report insufficient history: the result is neither a regime
\* classified from the other indicators nor a report that prints a z-score.
C10_InsufficientHistoryReported ==
    (mOut.kind # "idle" /\ mOut.script \in {"run5.py", "run6.py"}
        /\ ProvidersAnswered(mIn) /\ mIn.len > 0
        /\ (mIn.len < MinPeriods \/ mIn.std = 0)) =>
        \/ mOut.kind = "error" /\ mOut.msg = "insufficient overlapping data"
        \/ /\ mOut.kind = "report"
           /\ mOut.regime = "INSUFFICIENT HISTORY FOR Z-SCORE"
           /\ mOut.z_shown = NA

\* C11: run_macro_analysis always returns a string, a report or an error
\* message, whatever FRED answers for GDP and T10Y2Y (200, another status, an
\* exception); it never raises.
C11_MacroNeverRaises ==
    (mOut.kind # "idle" /\ mOut.script \in {"run5.py", "run6.py"} /\ mIn.len > 0) =>
        mOut.kind \in {"report", "error"}

\* The regimes of the three macro scripts and the allocation
\* <<equities, gold, cash>> each one stands for.
Allocations ==
    {<<"INSUFFICIENT HISTORY FOR Z-SCORE", <<33, 33, 34>>>>,
     <<"EXCESSIVE BUBBLE", <<20, 30, 50>>>>,
     <<"RECESSION WARNING", <<10, 50, 40>>>>,
     <<"VALUE RECOVERY", <<70, 20, 10>>>>,
     <<"GROWTH / MOMENTUM", <<60, 20, 20>>>>,
     <<"EARLY/MID CYCLE GROWTH", <<60, 20, 20>>>>,
     <<"EARLY/MID CYCLE", <<60, 20, 20>>>>,
     <<"LATE CYCLE", <<40, 20, 40>>>>,
     <<"EQUITY BUBBLE", <<10, 40, 50>>>>,
     <<"MONETARY CRISIS", <<20, 70, 10>>>>}

\* C17: whenever run4.py, run5.py or run6.py gets as far as classifying, it
\* selects one regime, the allocation is the fixed one of that regime, and its
\* three percentages are non-negative and sum to 100.
C17_AllocationTable ==
    mOut.kind = "report" =>
        /\ <<mOut.regime, mOut.alloc>> \in Allocations
        /\ \A a \in Allocations : a[1] = mOut.regime => a[2] = mOut.alloc
        /\ \A i \in 1 .. 3 : mOut.alloc[i] >= 0
        /\ Len(mOut.alloc) = 3
        /\ mOut.alloc[1] + mOut.alloc[2] + mOut.alloc[3] = 100

C17_Witness ==
    /\ mOut.kind = "report" /\ mOut.script = "run4.py"
    /\ mOut.regime = "MONETARY CRISIS" /\ mOut.alloc = <<20, 70, 10>>

-----------------------------------------------------------------------------
\* Properties of one send_telegram_message call (SpecNotify).

\* C12: send_telegram_message returns whatever the HTTP POST does (a
\* connection error, a timeout, a 4xx/5xx status); with TELEGRAM_BOT_TOKEN or
\* TELEGRAM_CHAT_ID missing it makes no request and prints the message.
C12_NotifyBestEffort ==
    tgOut.kind # "idle" =>
        /\ tgOut.kind = "returned"
        /\ (NotSet(tgIn.t.token) \/ NotSet(tgIn.t.chat)) =>
              /\ tgOut.posts = 0
              /\ tgOut.console[Len(tgOut.console)] = <<"message", tgIn.message>>
        /\ ~(NotSet(tgIn.t.token) \/ NotSet(tgIn.t.chat)) =>
              /\ tgOut.posts = 1 /\ tgOut.payload = <<tgIn.message>>

C12_Witness ==
    /\ tgOut.kind = "returned" /\ tgIn.t.post = "ConnectionError"
    /\ tgIn.t.token = "set" /\ tgIn.t.chat = "set"
    /\ tgOut.console = <<<<"Failed to send", "ConnectionError">>>>

-----------------------------------------------------------------------------
\* Properties of run4.py's entry point (SpecRun4).

\* C20: what run4.py hands to send_telegram_message is the report text of
\* run_analysis, stating the S&P/gold ratio, the regime and the allocation;
\* it is never None.
C20_PayloadIsReport ==
    r4pc \in {"sent", "done"} =>
        /\ analysis # NoneValue
        /\ analysis.kind = "report"
        /\ analysis = Report4(RDiv(I(r4In.m.sp), I(r4In.m.gold)),
                              DecisionMatrix4(RDiv(I(r4In.m.sp), I(r4In.m.gold))))
        /\ r4Out.posts = 1 => r4Out.payload = <<analysis>>

====
